---- MODULE Spec2Model ----
(***************************************************************************)
(* Covariancespectrum (stingray/covariancespectrum.py): the construction   *)
(* of a covariance spectrum from an event list, as a state machine.        *)
(*                                                                         *)
(* Energies and band ends are integers.  Every dictionary key the code     *)
(* computes is  unique_energy[i] + least_count*0.5  or  (lo + hi) / 2,     *)
(* a multiple of one half, so keys are stored DOUBLED: the model's key k   *)
(* stands for the float k/2, and an energy or band end x is compared to a  *)
(* key as 2*x.  On these values float arithmetic is exact.                 *)
(*                                                                         *)
(* Events have distinct arrival times 1..NEvents, so a time names its      *)
(* event.  A dict is the sequence of its [key, value] items in insertion   *)
(* order (the iteration order of a Python dict).                           *)
(***************************************************************************)
EXTENDS Integers, Sequences, FiniteSets, TLC

\* Bounds of the model.
NEvents == 3
MaxEnergy == 4
MaxBands == 2

VARIABLES
    event_list,         \* input: sequence of <<time, energy>>
    dt,                 \* input: bin width
    band_interest,      \* input, then self.band_interest
    ref_band_interest,  \* input, then self.ref_band_interest
    min_energy, max_energy, min_time, max_time,
    energy_events,      \* self.energy_events: dict key -> list of times
    energy_covar,       \* self.energy_covar: dict key -> covariance
    covar,              \* self.covar: rows <<key, covariance>>
    attrs,              \* which of energy_events, energy_covar, covar exist on self
    merge_log,          \* <<b, key>>: line 109 ran for the b-th band and cell key
    lc_calls,           \* per evaluated key, the two arguments of make_lightcurve
    pc,                 \* position in __init__
    error               \* the exception that ended __init__, or "none"

vars == <<event_list, dt, band_interest, ref_band_interest, min_energy,
          max_energy, min_time, max_time, energy_events, energy_covar, covar,
          attrs, merge_log, lc_calls, pc, error>>

----------------------------------------------------------------------------
\* Python values

None == [kind |-> "None", items |-> <<>>]
Tuple(items) == [kind |-> "tuple", items |-> items]
List(items) == [kind |-> "list", items |-> items]
Str(items) == [kind |-> "str", items |-> items]

Min(S) == CHOOSE x \in S : \A y \in S : x <= y
Max(S) == CHOOSE x \in S : \A y \in S : x >= y
Elems(s) == {s[i] : i \in DOMAIN s}

RECURSIVE sorted_set(_)
\* the elements of a set of numbers in ascending order
sorted_set(S) ==
    IF S = {} THEN <<>> ELSE <<Min(S)>> \o sorted_set(S \ {Min(S)})

\* sorted(list)
sorted(s) == SortSeq(s, LAMBDA a, b : a < b)

----------------------------------------------------------------------------
\* dict, in insertion order

DictKeys(d) == [i \in DOMAIN d |-> d[i].key]
DictHas(d, k) == \E i \in DOMAIN d : d[i].key = k
DictGet(d, k) == d[CHOOSE i \in DOMAIN d : d[i].key = k].value
\* d[k] = v
DictSet(d, k, v) ==
    IF DictHas(d, k)
    THEN [i \in DOMAIN d |-> IF d[i].key = k THEN [key |-> k, value |-> v] ELSE d[i]]
    ELSE Append(d, [key |-> k, value |-> v])
\* del d[k]
DictDel(d, k) == SelectSeq(d, LAMBDA it : it.key # k)
RECURSIVE DictUpdate(_, _)
\* d.update(other)
DictUpdate(d, other) ==
    IF other = <<>> THEN d
    ELSE DictUpdate(DictSet(d, Head(other).key, Head(other).value), Tail(other))

----------------------------------------------------------------------------
\* __init__, lines 33-62

Times(ev) == {ev[i][1] : i \in DOMAIN ev}
Energies(ev) == {ev[i][2] : i \in DOMAIN ev}

\* lines 39-45: the two assertions on ref_band_interest
ValidRef(ref) == ref.kind \in {"list", "tuple"} /\ Len(ref.items) = 2

\* lines 50-54: the two assertions on one element of band_interest
ValidElement(element) ==
    element.kind \in {"list", "tuple"} /\ Len(element.items) = 2

\* the assertions applied to the first element only
OnlyFirstElement(bands) ==
    bands.kind = "None" \/ bands.items = <<>> \/ ValidElement(bands.items[1])

\* lines 48-54: every element of band_interest passes the assertions
ValidBands(bands) ==
    bands.kind = "None" \/ \A i \in DOMAIN bands.items : ValidElement(bands.items[i])

Covariancespectrum_init ==
    /\ pc = "init"
    /\ min_energy' = Min(Energies(event_list))
    /\ max_energy' = Max(Energies(event_list))
    /\ min_time' = Min(Times(event_list))
    /\ max_time' = Max(Times(event_list))
    /\ LET ref == IF ref_band_interest = None
                  THEN Tuple(<<min_energy', max_energy'>>)
                  ELSE ref_band_interest
       IN IF ~ValidRef(ref)
          THEN /\ pc' = "failed"
               /\ error' = "AssertionError"
               /\ UNCHANGED ref_band_interest
          ELSE /\ ref_band_interest' = ref
               /\ IF ValidBands(band_interest)
                  THEN pc' = "partition" /\ error' = "none"
                  ELSE pc' = "failed" /\ error' = "AssertionError"
    /\ UNCHANGED <<event_list, dt, band_interest, energy_events, energy_covar,
                   covar, attrs, merge_log, lc_calls>>

----------------------------------------------------------------------------
\* _construct_energy_events, lines 71-95

\* np.unique(event_list_T[1])
unique_energy(ev) == sorted_set(Energies(ev))

\* np.diff(unique).min(), for at least two unique energies
least_count(u) == Min({u[i + 1] - u[i] : i \in 1 .. Len(u) - 1})

\* unique_energy[i] + least_count*0.5, doubled
CellKey(e, lc) == 2 * e + lc

\* line 86: the test for the last energy bin
IsLastBin(key, maxe, lc) == key = 2 * maxe - lc

\* lines 87-89 and 92-94: the mask of one bin
InBin(e, key, lc, last) ==
    /\ 2 * e >= key - lc
    /\ IF last THEN 2 * e <= key + lc ELSE 2 * e < key + lc

\* lines 85-95: the sorted times of arrival of one bin
toa(ev, key, maxe, lc) ==
    sorted_set({ev[i][1] : i \in {j \in DOMAIN ev :
                    InBin(ev[j][2], key, lc, IsLastBin(key, maxe, lc))}})

RECURSIVE EmptyBins(_, _, _)
\* lines 79-82
EmptyBins(u, lc, i) ==
    IF i > Len(u) - 1 THEN <<>>
    ELSE DictUpdate(<<[key |-> CellKey(u[i], lc), value |-> <<>>]>>,
                    EmptyBins(u, lc, i + 1))

\* lines 73-95, for at least two unique energies
Cells(ev, maxe) ==
    LET u == unique_energy(ev)
        lc == least_count(u)
        empty == EmptyBins(u, lc, 1)
    IN [i \in DOMAIN empty |->
            [key |-> empty[i].key, value |-> toa(ev, empty[i].key, maxe, lc)]]

construct_energy_events ==
    /\ pc = "partition"
    /\ IF Len(unique_energy(event_list)) < 2
       THEN \* line 73: min() of an empty array raises ValueError
            /\ pc' = "failed"
            /\ error' = "ValueError"
            /\ UNCHANGED <<energy_events, attrs>>
       ELSE /\ energy_events' = Cells(event_list, max_energy)
            /\ attrs' = attrs \cup {"energy_events"}
            /\ pc' = "merge"
            /\ UNCHANGED error
    /\ UNCHANGED <<event_list, dt, band_interest, ref_band_interest, min_energy,
                   max_energy, min_time, max_time, energy_covar, covar,
                   merge_log, lc_calls>>

----------------------------------------------------------------------------
\* _update_energy_events, lines 98-112

\* band[0] + band[1] without the division by 2, doubled
mid_bin_sum(band) == 2 * (band.items[1] + band.items[2])
\* line 103: (band[0] + band[1]) / 2, doubled
mid_bin(band) == band.items[1] + band.items[2]

\* line 108
InBand(key, band) == key >= 2 * band.items[1] /\ key <= 2 * band.items[2]

\* line 110 left out
KeepCell(ee, key) == ee
\* line 110
RemoveCell(ee, key) == DictDel(ee, key)

RECURSIVE MergeCells(_, _, _, _)
\* lines 107-110, over the keys listed at line 107
MergeCells(keys, b, bands, st) ==
    IF keys = <<>> THEN st
    ELSE LET key == Head(keys)
             mid == mid_bin(bands[b])
         IN IF InBand(key, bands[b])
            THEN MergeCells(Tail(keys), b, bands,
                    [ee |-> RemoveCell(st.ee, key),
                     ee_ |-> DictSet(st.ee_, mid,
                                     DictGet(st.ee_, mid) \o DictGet(st.ee, key)),
                     log |-> st.log \cup {<<b, key>>}])
            ELSE MergeCells(Tail(keys), b, bands, st)

RECURSIVE MergeBands(_, _, _)
\* lines 102-110, from the b-th band on
MergeBands(b, bands, st) ==
    IF b > Len(bands) THEN st
    ELSE LET st1 == [st EXCEPT !.ee_ = DictSet(st.ee_, mid_bin(bands[b]), <<>>)]
         IN MergeBands(b + 1, bands, MergeCells(DictKeys(st1.ee), b, bands, st1))

update_energy_events ==
    /\ pc = "merge"
    /\ IF band_interest # None
       THEN LET st == MergeBands(1, band_interest.items,
                                 [ee |-> energy_events, ee_ |-> <<>>, log |-> {}])
            IN /\ energy_events' = DictUpdate(st.ee, st.ee_)
               /\ merge_log' = st.log
       ELSE UNCHANGED <<energy_events, merge_log>>
    /\ pc' = "covar"
    /\ UNCHANGED <<event_list, dt, band_interest, ref_band_interest, min_energy,
                   max_energy, min_time, max_time, energy_covar, covar, attrs,
                   lc_calls, error>>

----------------------------------------------------------------------------
\* _construct_energy_covar, lines 115-156

RECURSIVE InitBands(_, _)
\* lines 124-126
InitBands(bands, ec) ==
    IF bands = <<>> THEN ec
    ELSE InitBands(Tail(bands), DictSet(ec, mid_bin(Head(bands)), <<>>))

\* _init_energy_covar, lines 115-126
init_energy_covar(ee, bands) ==
    IF bands = None
    THEN [i \in DOMAIN ee |-> [key |-> ee[i].key, value |-> <<>>]]
    ELSE InitBands(bands.items, <<>>)

\* line 140 left out
AnyKeyInRange(key, energy, ref) ==
    key >= 2 * ref.items[1] /\ key <= 2 * ref.items[2]
\* lines 139-140
IsReference(key, energy, ref) ==
    key >= 2 * ref.items[1] /\ key <= 2 * ref.items[2] /\ key # energy

RECURSIVE Extend(_, _, _)
\* lines 137-141
Extend(ee, energy, ref) ==
    IF ee = <<>> THEN <<>>
    ELSE (IF IsReference(Head(ee).key, energy, ref) THEN Head(ee).value ELSE <<>>)
         \o Extend(Tail(ee), energy, ref)

\* line 143
toa_ref(ee, energy, ref) == sorted(Extend(ee, energy, ref))

\* Lightcurve.make_lightcurve(toa, dt, tstart, tseg).counts: one count per bin
\* of width d over [tstart, tstart + tseg)
make_lightcurve(times, d, tstart, tseg) ==
    [b \in 1 .. (tseg \div d) |->
        Cardinality({j \in DOMAIN times :
            tstart + (b - 1) * d <= times[j] /\ times[j] < tstart + b * d})]

RECURSIVE Sum(_, _)
Sum(f, n) == IF n = 0 THEN 0 ELSE f[n] + Sum(f, n - 1)

\* _compute_covariance, line 156: np.cov(x, y)[0][1] = sum((x-mx)(y-my))/(N-1),
\* here multiplied by N(N-1) to stay in the integers
compute_covariance(x, y) ==
    LET N == Len(x)
    IN N * Sum([i \in 1 .. N |-> x[i] * y[i]], N) - Sum(x, N) * Sum(y, N)

\* The assertion of line 147 cannot fail: both series of a key have
\* (max_time - min_time) \div dt bins.
construct_energy_covar ==
    /\ pc = "covar"
    /\ LET ec0 == init_energy_covar(energy_events, band_interest)
           tseg == max_time - min_time
           call(energy) ==
               [energy |-> energy,
                toa |-> DictGet(energy_events, energy),
                toa_ref |-> toa_ref(energy_events, energy, ref_band_interest)]
           calls == [i \in DOMAIN ec0 |-> call(ec0[i].key)]
           ec == [i \in DOMAIN ec0 |->
                    [key |-> ec0[i].key,
                     value |-> compute_covariance(
                         make_lightcurve(calls[i].toa, dt, min_time, tseg),
                         make_lightcurve(calls[i].toa_ref, dt, min_time, tseg))]]
       IN /\ lc_calls' = calls
          /\ energy_covar' = ec
          /\ IF ec = <<>>
             THEN \* line 153: np.vstack of no rows raises ValueError
                  /\ attrs' = attrs \cup {"energy_covar"}
                  /\ pc' = "failed"
                  /\ error' = "ValueError"
                  /\ UNCHANGED covar
             ELSE /\ covar' = [i \in DOMAIN ec |-> <<ec[i].key, ec[i].value>>]
                  /\ attrs' = attrs \cup {"energy_covar", "covar"}
                  /\ pc' = "done"
                  /\ UNCHANGED error
    /\ UNCHANGED <<event_list, dt, band_interest, ref_band_interest, min_energy,
                   max_energy, min_time, max_time, energy_events, merge_log>>

----------------------------------------------------------------------------
\* The inputs

EventLists(energies) ==
    {[i \in 1 .. NEvents |-> <<i, e[i]>>] : e \in [1 .. NEvents -> energies]}

\* the bands offered as elements of band_interest: the whole range, a band
\* inside it with the same midpoint, a band given high end first, a low band
GoodBands == {Tuple(<<1, 4>>), Tuple(<<2, 3>>), Tuple(<<4, 1>>), List(<<1, 2>>)}
BadBands == {Tuple(<<1>>), Tuple(<<1, 2, 4>>), Str(<<1, 4>>)}
GoodRefs == {None, Tuple(<<2, 4>>), List(<<1, 2>>)}
BadRefs == {Tuple(<<1>>), Tuple(<<1, 2, 4>>), Str(<<1, 4>>)}

BandLists(elements) ==
    {None} \cup {List(s) : s \in UNION {[1 .. n -> elements] : n \in 0 .. MaxBands}}

Init ==
    /\ \/ /\ event_list \in EventLists(1 .. MaxEnergy)
          /\ band_interest \in BandLists(GoodBands)
          /\ ref_band_interest \in GoodRefs
       \/ /\ event_list \in EventLists(1 .. 2)
          /\ band_interest \in BandLists(GoodBands \cup BadBands)
          /\ ref_band_interest \in GoodRefs \cup BadRefs
    /\ dt = 1
    /\ min_energy = 0 /\ max_energy = 0 /\ min_time = 0 /\ max_time = 0
    /\ energy_events = <<>>
    /\ energy_covar = <<>>
    /\ covar = <<>>
    /\ attrs = {}
    /\ merge_log = {}
    /\ lc_calls = <<>>
    /\ pc = "init"
    /\ error = "none"

Next ==
    \/ Covariancespectrum_init
    \/ construct_energy_events
    \/ update_energy_events
    \/ construct_energy_covar

Spec == Init /\ [][Next]_vars

----------------------------------------------------------------------------
\* What the properties below speak of

\* the event times held by the values of a dict
EventsOf(d) == UNION {Elems(d[i].value) : i \in DOMAIN d}
\* the times of the events with energy in [lo, hi), or in [lo, hi] when closed
TimesBetween(lo, hi, closed) ==
    {event_list[i][1] : i \in {j \in DOMAIN event_list :
        /\ lo <= event_list[j][2]
        /\ event_list[j][2] < hi \/ (closed /\ event_list[j][2] = hi)}}
Ascending(s) == \A i \in 1 .. Len(s) - 1 : s[i] <= s[i + 1]
\* a list or tuple of two elements
IsPair(x) == x.kind \in {"list", "tuple"} /\ Len(x.items) = 2
IllShapedInput ==
    \/ ref_band_interest # None /\ ~IsPair(ref_band_interest)
    \/ band_interest # None /\ \E i \in DOMAIN band_interest.items :
                                   ~IsPair(band_interest.items[i])
\* the step of _update_energy_events
MergeStep == pc = "merge" /\ pc' = "covar"
\* the indices of the supplied bands that contain key
Covering(key) ==
    {i \in DOMAIN band_interest.items : InBand(key, band_interest.items[i])}

\* C1. Partition completeness: after _construct_energy_events every input
\* event's time is in exactly one cell, and the cells' time lists together
\* hold every input time exactly once.
PartitionCompleteness ==
    pc = "merge" =>
        /\ \A i \in DOMAIN event_list :
              Cardinality({c \in DOMAIN energy_events :
                  event_list[i][1] \in Elems(energy_events[c].value)}) = 1
        /\ EventsOf(energy_events) = Times(event_list)

\* C2. Cell boundary correctness: n unique energies give n-1 cells keyed
\* unique[i] + least_count/2; a non-final cell holds the events with energy in
\* [unique[i], unique[i+1]) and the cell with the largest key holds those in
\* [unique[n-1], unique[n]], the maximum energy included.
CellBoundaryCorrectness ==
    pc = "merge" =>
        LET u == sorted_set(Energies(event_list))
            n == Len(u)
            lc == Min({u[i + 1] - u[i] : i \in 1 .. n - 1})
        IN /\ Len(energy_events) = n - 1
           /\ \A i \in 1 .. n - 1 :
                /\ energy_events[i].key = 2 * u[i] + lc
                /\ Elems(energy_events[i].value) =
                     TimesBetween(u[i], u[i + 1], i = n - 1)

\* C3, as stated. Overlapping bands double-count: a cell whose key lies in two
\* supplied bands has its events appended to the records of both.
OverlappingBandsDoubleCount ==
    [][(MergeStep /\ band_interest # None) =>
          \A c \in DOMAIN energy_events : \A i, j \in Covering(energy_events[c].key) :
              /\ <<i, energy_events[c].key>> \in merge_log'
              /\ <<j, energy_events[c].key>> \in merge_log']_vars

\* C3, amended. A cell whose key lies in one or more supplied bands has its
\* events appended to the record of the first such band only (the cell is
\* deleted when it is merged), a cell in no band is appended nowhere, and after
\* the merge no event is held by two entries of the mapping.
MergeAppendsToFirstBandOnly ==
    [][(MergeStep /\ band_interest # None) =>
          /\ \A c \in DOMAIN energy_events :
                LET key == energy_events[c].key
                IN {i \in DOMAIN band_interest.items : <<i, key>> \in merge_log'}
                     = IF Covering(key) = {} THEN {} ELSE {Min(Covering(key))}
          /\ \A a, b \in DOMAIN energy_events' :
                a # b => Elems(energy_events'[a].value)
                            \cap Elems(energy_events'[b].value) = {}]_vars

\* C3 witness: a merge in which a later band also contains the key of a
\* non-empty cell that an earlier band absorbed
OverlapMerged ==
    /\ pc = "covar" /\ band_interest # None
    /\ \E m \in merge_log : \E j \in Covering(m[2]) : j > m[1]
    /\ EventsOf(energy_events) # {}

\* C4. Spectrum shape and order: one entry per supplied band in the order
\* supplied, or one per cell in ascending key order without bands; covar has
\* one <<midpoint, covariance>> row per entry of energy_covar, in its order.
SpectrumShapeAndOrder ==
    pc = "done" =>
        /\ band_interest # None =>
              /\ Len(energy_covar) = Len(band_interest.items)
              /\ \A i \in DOMAIN energy_covar : energy_covar[i].key =
                     band_interest.items[i].items[1] + band_interest.items[i].items[2]
        /\ band_interest = None =>
              /\ Len(energy_covar) = Len(energy_events)
              /\ \A i \in 1 .. Len(energy_covar) - 1 :
                     energy_covar[i].key < energy_covar[i + 1].key
        /\ Len(covar) = Len(energy_covar)
        /\ \A i \in DOMAIN covar :
               covar[i] = <<energy_covar[i].key, energy_covar[i].value>>

\* C5. Reference exclusion: for every evaluated key, no event of the band's
\* own list is in its reference stream, and the stream holds exactly the
\* events of the other entries whose key lies in the reference range.
ReferenceExclusion ==
    pc = "done" =>
        /\ Len(lc_calls) = Len(energy_covar)
        /\ \A i \in DOMAIN lc_calls :
              LET call == lc_calls[i]
                  lo == 2 * ref_band_interest.items[1]
                  hi == 2 * ref_band_interest.items[2]
                  others == {j \in DOMAIN energy_events :
                                /\ energy_events[j].key # call.energy
                                /\ lo <= energy_events[j].key
                                /\ energy_events[j].key <= hi}
              IN /\ call.energy = energy_covar[i].key
                 /\ Elems(call.toa) \cap Elems(call.toa_ref) = {}
                 /\ Elems(call.toa_ref) =
                        UNION {Elems(energy_events[j].value) : j \in others}
                 /\ Len(call.toa_ref) = Cardinality(Elems(call.toa_ref))

\* C5 witness: with bands supplied, an evaluated band whose key lies in the
\* reference range, with events of its own and a non-empty reference stream
ReferenceContainsBand ==
    /\ pc = "done" /\ band_interest # None
    /\ \E i \in DOMAIN lc_calls :
          /\ lc_calls[i].energy >= 2 * ref_band_interest.items[1]
          /\ lc_calls[i].energy <= 2 * ref_band_interest.items[2]
          /\ lc_calls[i].toa # <<>>
          /\ lc_calls[i].toa_ref # <<>>

\* the one band supplied is [min_energy, max_energy]
SingleFullRangeBand ==
    /\ band_interest # None
    /\ Len(band_interest.items) = 1
    /\ band_interest.items[1].items = <<min_energy, max_energy>>

\* C6. Single full-range band merge: with the one band [min_energy,
\* max_energy], after _update_energy_events the mapping has exactly one entry,
\* keyed (min_energy + max_energy)/2, holding the events of all the cells that
\* existed before the merge, each once.
SingleFullRangeBandMerge ==
    [][(MergeStep /\ SingleFullRangeBand) =>
          /\ Len(energy_events') = 1
          /\ energy_events'[1].key = min_energy + max_energy
          /\ Elems(energy_events'[1].value) = EventsOf(energy_events)
          /\ Len(energy_events'[1].value) = Cardinality(EventsOf(energy_events))]_vars

\* C6 witness: the full-range band has absorbed two cells
FullRangeMerged ==
    /\ pc = "covar" /\ SingleFullRangeBand
    /\ Cardinality(merge_log) = 2
    /\ Len(energy_events[1].value) >= 2

\* C7. Minimal dataset failure: with exactly one distinct energy value the
\* construction fails with InsufficientDataError and produces no spectrum.
MinimalDatasetFailure ==
    (Cardinality(Energies(event_list)) = 1 /\ ~IllShapedInput
        /\ pc \notin {"init", "partition"}) =>
        /\ pc = "failed"
        /\ error = "InsufficientDataError"
        /\ attrs \cap {"energy_covar", "covar"} = {}

\* C8. Eager input-shape validation: when ref_band_interest or any element of
\* band_interest is not a list or tuple of two elements, construction fails
\* in the assertions, before energy_events is created and before any merge or
\* covariance computation.
EagerShapeValidation ==
    (IllShapedInput /\ pc # "init") =>
        /\ pc = "failed"
        /\ error = "AssertionError"
        /\ attrs = {}
        /\ energy_events = <<>>
        /\ merge_log = {}
        /\ lc_calls = <<>>
        /\ energy_covar = <<>>

\* C8 witness: construction has failed on a band_interest whose first element
\* is a pair and whose second is not, with a well-shaped reference band
LaterElementRejected ==
    /\ pc = "failed"
    /\ ref_band_interest = None \/ IsPair(ref_band_interest)
    /\ band_interest # None
    /\ Len(band_interest.items) = 2
    /\ IsPair(band_interest.items[1])
    /\ ~IsPair(band_interest.items[2])

\* C9. Sorted input to the Series Builder: both time sequences passed to
\* make_lightcurve for an evaluated band are in ascending order.
SortedSeriesInput ==
    pc = "done" =>
        \A i \in DOMAIN lc_calls :
            Ascending(lc_calls[i].toa) /\ Ascending(lc_calls[i].toa_ref)

\* C10. Band merging conserves events: the events held by energy_events after
\* _update_energy_events are those held by the cells before it.
MergeConservesEvents ==
    [][MergeStep => EventsOf(energy_events') = EventsOf(energy_events)]_vars

====
